---- MODULE Spec2Model ----
(***************************************************************************)
(* The batch driver and field-extraction engine of app.py: one click of    *)
(* "Procesar PDFs" reads every uploaded file, extracts the 14 fields of    *)
(* CAMPOS with the rules of PATRONES, shows the tables and exports them.   *)
(***************************************************************************)
EXTENDS Integers, Sequences, FiniteSets, TLC

(***************************************************************************)
(* Characters.  A Python str is a sequence of Unicode code points, and so  *)
(* is a text here: a sequence of the numbers ord() gives.                  *)
(***************************************************************************)
\* chr(32) .. chr(95)
Imprimibles ==
    <<" ", "!", "\"", "#", "$", "%", "&", "'", "(", ")", "*", "+", ",", "-",
      ".", "/", "0", "1", "2", "3", "4", "5", "6", "7", "8", "9", ":", ";",
      "<", "=", ">", "?", "@", "A", "B", "C", "D", "E", "F", "G", "H", "I",
      "J", "K", "L", "M", "N", "O", "P", "Q", "R", "S", "T", "U", "V", "W",
      "X", "Y", "Z", "[", "\\", "]", "^", "_">>

\* chr(97) .. chr(126)
Letras ==
    <<"a", "b", "c", "d", "e", "f", "g", "h", "i", "j", "k", "l", "m", "n",
      "o", "p", "q", "r", "s", "t", "u", "v", "w", "x", "y", "z", "{", "|",
      "}", "~">>

\* chr(174) .. chr(255)
Latinos ==
    <<"®", "¯", "°", "±", "²", "³", "´", "µ", "¶", "·", "¸", "¹", "º", "»",
      "¼", "½", "¾", "¿", "À", "Á", "Â", "Ã", "Ä", "Å", "Æ", "Ç", "È", "É",
      "Ê", "Ë", "Ì", "Í", "Î", "Ï", "Ð", "Ñ", "Ò", "Ó", "Ô", "Õ", "Ö", "×",
      "Ø", "Ù", "Ú", "Û", "Ü", "Ý", "Þ", "ß", "à", "á", "â", "ã", "ä", "å",
      "æ", "ç", "è", "é", "ê", "ë", "ì", "í", "î", "ï", "ð", "ñ", "ò", "ó",
      "ô", "õ", "ö", "÷", "ø", "ù", "ú", "û", "ü", "ý", "þ", "ÿ">>

\* ord(c) of the characters the literals of this module are written with.
Ord ==
    [c \in {Imprimibles[k] : k \in 1..Len(Imprimibles)}
             \cup {Letras[k] : k \in 1..Len(Letras)}
             \cup {Latinos[k] : k \in 1..Len(Latinos)}
             \cup {"\t", "\n", "\f", "\r"} |->
        CASE c = "\t" -> 9
          [] c = "\n" -> 10
          [] c = "\f" -> 12
          [] c = "\r" -> 13
          [] \E k \in 1..Len(Imprimibles) : Imprimibles[k] = c ->
               31 + (CHOOSE k \in 1..Len(Imprimibles) : Imprimibles[k] = c)
          [] \E k \in 1..Len(Letras) : Letras[k] = c ->
               96 + (CHOOSE k \in 1..Len(Letras) : Letras[k] = c)
          [] OTHER -> 173 + (CHOOSE k \in 1..Len(Latinos) : Latinos[k] = c)]

\* A str literal, written character by character.
Txt(w) == [k \in 1..Len(w) |-> Ord[w[k]]]

\* The characters listed between the brackets of a class.
Ords(S) == {Ord[c] : c \in S}

\* A-Z
AZ == 65..90

\* 0-9
D09 == 48..57

\* \s of a str pattern, which is also what str.strip() removes: the
\* characters for which str.isspace() holds.
Espacios ==
    (9..13) \cup (28..32) \cup (8192..8202) \cup
    {133, 160, 5760, 8232, 8233, 8239, 8287, 12288}

\* \d of a str pattern: the decimal digits of every script, ten from each
\* of these zeros on.
Digitos ==
    UNION {d..(d + 9) : d \in
          {48, 1632, 1776, 1984, 2406, 2534, 2662, 2790, 2918, 3046, 3174,
           3302, 3430, 3558, 3664, 3792, 3872, 4160, 4240, 6112, 6160, 6470,
           6608, 6784, 6800, 6992, 7088, 7232, 7248, 42528, 43216, 43264,
           43472, 43504, 43600, 44016, 65296, 66720, 68912, 69734, 69872,
           69942, 70096, 70384, 70736, 70864, 71248, 71360, 71472, 71904,
           72016, 72784, 73040, 73120, 92768, 92864, 93008, 120782, 120792,
           120802, 120812, 120822, 123200, 123632, 125264, 130032}}

\* str.upper() of the characters it turns into several.
MayusculasVarias ==
    [c \in
       {223, 329, 496, 912, 944, 1415, 7830, 7831, 7832, 7833, 7834, 8016,
        8018, 8020, 8022, 8064, 8065, 8066, 8067, 8068, 8069, 8070, 8071, 8072,
        8073, 8074, 8075, 8076, 8077, 8078, 8079, 8080, 8081, 8082, 8083, 8084,
        8085, 8086, 8087, 8088, 8089, 8090, 8091, 8092, 8093, 8094, 8095, 8096,
        8097, 8098, 8099, 8100, 8101, 8102, 8103, 8104, 8105, 8106, 8107, 8108,
        8109, 8110, 8111, 8114, 8115, 8116, 8118, 8119, 8124, 8130, 8131, 8132,
        8134, 8135, 8140, 8146, 8147, 8150, 8151, 8162, 8163, 8164, 8166, 8167,
        8178, 8179, 8180, 8182, 8183, 8188, 64256, 64257, 64258, 64259, 64260,
        64261, 64262, 64275, 64276, 64277, 64278, 64279} |->
        CASE c = 223 -> <<83, 83>>
          [] c = 329 -> <<700, 78>>
          [] c = 496 -> <<74, 780>>
          [] c = 912 -> <<921, 776, 769>>
          [] c = 944 -> <<933, 776, 769>>
          [] c = 1415 -> <<1333, 1362>>
          [] c = 7830 -> <<72, 817>>
          [] c = 7831 -> <<84, 776>>
          [] c = 7832 -> <<87, 778>>
          [] c = 7833 -> <<89, 778>>
          [] c = 7834 -> <<65, 702>>
          [] c = 8016 -> <<933, 787>>
          [] c = 8018 -> <<933, 787, 768>>
          [] c = 8020 -> <<933, 787, 769>>
          [] c = 8022 -> <<933, 787, 834>>
          [] c = 8064 -> <<7944, 921>>
          [] c = 8065 -> <<7945, 921>>
          [] c = 8066 -> <<7946, 921>>
          [] c = 8067 -> <<7947, 921>>
          [] c = 8068 -> <<7948, 921>>
          [] c = 8069 -> <<7949, 921>>
          [] c = 8070 -> <<7950, 921>>
          [] c = 8071 -> <<7951, 921>>
          [] c = 8072 -> <<7944, 921>>
          [] c = 8073 -> <<7945, 921>>
          [] c = 8074 -> <<7946, 921>>
          [] c = 8075 -> <<7947, 921>>
          [] c = 8076 -> <<7948, 921>>
          [] c = 8077 -> <<7949, 921>>
          [] c = 8078 -> <<7950, 921>>
          [] c = 8079 -> <<7951, 921>>
          [] c = 8080 -> <<7976, 921>>
          [] c = 8081 -> <<7977, 921>>
          [] c = 8082 -> <<7978, 921>>
          [] c = 8083 -> <<7979, 921>>
          [] c = 8084 -> <<7980, 921>>
          [] c = 8085 -> <<7981, 921>>
          [] c = 8086 -> <<7982, 921>>
          [] c = 8087 -> <<7983, 921>>
          [] c = 8088 -> <<7976, 921>>
          [] c = 8089 -> <<7977, 921>>
          [] c = 8090 -> <<7978, 921>>
          [] c = 8091 -> <<7979, 921>>
          [] c = 8092 -> <<7980, 921>>
          [] c = 8093 -> <<7981, 921>>
          [] c = 8094 -> <<7982, 921>>
          [] c = 8095 -> <<7983, 921>>
          [] c = 8096 -> <<8040, 921>>
          [] c = 8097 -> <<8041, 921>>
          [] c = 8098 -> <<8042, 921>>
          [] c = 8099 -> <<8043, 921>>
          [] c = 8100 -> <<8044, 921>>
          [] c = 8101 -> <<8045, 921>>
          [] c = 8102 -> <<8046, 921>>
          [] c = 8103 -> <<8047, 921>>
          [] c = 8104 -> <<8040, 921>>
          [] c = 8105 -> <<8041, 921>>
          [] c = 8106 -> <<8042, 921>>
          [] c = 8107 -> <<8043, 921>>
          [] c = 8108 -> <<8044, 921>>
          [] c = 8109 -> <<8045, 921>>
          [] c = 8110 -> <<8046, 921>>
          [] c = 8111 -> <<8047, 921>>
          [] c = 8114 -> <<8122, 921>>
          [] c = 8115 -> <<913, 921>>
          [] c = 8116 -> <<902, 921>>
          [] c = 8118 -> <<913, 834>>
          [] c = 8119 -> <<913, 834, 921>>
          [] c = 8124 -> <<913, 921>>
          [] c = 8130 -> <<8138, 921>>
          [] c = 8131 -> <<919, 921>>
          [] c = 8132 -> <<905, 921>>
          [] c = 8134 -> <<919, 834>>
          [] c = 8135 -> <<919, 834, 921>>
          [] c = 8140 -> <<919, 921>>
          [] c = 8146 -> <<921, 776, 768>>
          [] c = 8147 -> <<921, 776, 769>>
          [] c = 8150 -> <<921, 834>>
          [] c = 8151 -> <<921, 776, 834>>
          [] c = 8162 -> <<933, 776, 768>>
          [] c = 8163 -> <<933, 776, 769>>
          [] c = 8164 -> <<929, 787>>
          [] c = 8166 -> <<933, 834>>
          [] c = 8167 -> <<933, 776, 834>>
          [] c = 8178 -> <<8186, 921>>
          [] c = 8179 -> <<937, 921>>
          [] c = 8180 -> <<911, 921>>
          [] c = 8182 -> <<937, 834>>
          [] c = 8183 -> <<937, 834, 921>>
          [] c = 8188 -> <<937, 921>>
          [] c = 64256 -> <<70, 70>>
          [] c = 64257 -> <<70, 73>>
          [] c = 64258 -> <<70, 76>>
          [] c = 64259 -> <<70, 70, 73>>
          [] c = 64260 -> <<70, 70, 76>>
          [] c = 64261 -> <<83, 84>>
          [] c = 64262 -> <<83, 84>>
          [] c = 64275 -> <<1348, 1350>>
          [] c = 64276 -> <<1348, 1333>>
          [] c = 64277 -> <<1348, 1339>>
          [] c = 64278 -> <<1358, 1350>>
          [] c = 64279 -> <<1348, 1341>>]

\* str.upper() of the characters it turns into one other: <<lo, hi, paso,
\* delta>> says that c + delta is the upper case of lo, lo + paso, ..., hi.
MayusculasSimples ==
    <<<<97, 122, 1, -32>>, <<181, 181, 1, 743>>, <<224, 246, 1, -32>>,
      <<248, 254, 1, -32>>, <<255, 255, 1, 121>>, <<257, 303, 2, -1>>,
      <<305, 305, 1, -232>>, <<307, 311, 2, -1>>, <<314, 328, 2, -1>>,
      <<331, 375, 2, -1>>, <<378, 382, 2, -1>>, <<383, 383, 1, -300>>,
      <<384, 384, 1, 195>>, <<387, 389, 2, -1>>, <<392, 392, 1, -1>>,
      <<396, 396, 1, -1>>, <<402, 402, 1, -1>>, <<405, 405, 1, 97>>,
      <<409, 409, 1, -1>>, <<410, 410, 1, 163>>, <<414, 414, 1, 130>>,
      <<417, 421, 2, -1>>, <<424, 424, 1, -1>>, <<429, 429, 1, -1>>,
      <<432, 432, 1, -1>>, <<436, 438, 2, -1>>, <<441, 441, 1, -1>>,
      <<445, 445, 1, -1>>, <<447, 447, 1, 56>>, <<453, 453, 1, -1>>,
      <<454, 454, 1, -2>>, <<456, 456, 1, -1>>, <<457, 457, 1, -2>>,
      <<459, 459, 1, -1>>, <<460, 460, 1, -2>>, <<462, 476, 2, -1>>,
      <<477, 477, 1, -79>>, <<479, 495, 2, -1>>, <<498, 498, 1, -1>>,
      <<499, 499, 1, -2>>, <<501, 501, 1, -1>>, <<505, 543, 2, -1>>,
      <<547, 563, 2, -1>>, <<572, 572, 1, -1>>, <<575, 576, 1, 10815>>,
      <<578, 578, 1, -1>>, <<583, 591, 2, -1>>, <<592, 592, 1, 10783>>,
      <<593, 593, 1, 10780>>, <<594, 594, 1, 10782>>, <<595, 595, 1, -210>>,
      <<596, 596, 1, -206>>, <<598, 599, 1, -205>>, <<601, 601, 1, -202>>,
      <<603, 603, 1, -203>>, <<604, 604, 1, 42319>>, <<608, 608, 1, -205>>,
      <<609, 609, 1, 42315>>, <<611, 611, 1, -207>>, <<613, 613, 1, 42280>>,
      <<614, 614, 1, 42308>>, <<616, 616, 1, -209>>, <<617, 617, 1, -211>>,
      <<618, 618, 1, 42308>>, <<619, 619, 1, 10743>>, <<620, 620, 1, 42305>>,
      <<623, 623, 1, -211>>, <<625, 625, 1, 10749>>, <<626, 626, 1, -213>>,
      <<629, 629, 1, -214>>, <<637, 637, 1, 10727>>, <<640, 640, 1, -218>>,
      <<642, 642, 1, 42307>>, <<643, 643, 1, -218>>, <<647, 647, 1, 42282>>,
      <<648, 648, 1, -218>>, <<649, 649, 1, -69>>, <<650, 651, 1, -217>>,
      <<652, 652, 1, -71>>, <<658, 658, 1, -219>>, <<669, 669, 1, 42261>>,
      <<670, 670, 1, 42258>>, <<837, 837, 1, 84>>, <<881, 883, 2, -1>>,
      <<887, 887, 1, -1>>, <<891, 893, 1, 130>>, <<940, 940, 1, -38>>,
      <<941, 943, 1, -37>>, <<945, 961, 1, -32>>, <<962, 962, 1, -31>>,
      <<963, 971, 1, -32>>, <<972, 972, 1, -64>>, <<973, 974, 1, -63>>,
      <<976, 976, 1, -62>>, <<977, 977, 1, -57>>, <<981, 981, 1, -47>>,
      <<982, 982, 1, -54>>, <<983, 983, 1, -8>>, <<985, 1007, 2, -1>>,
      <<1008, 1008, 1, -86>>, <<1009, 1009, 1, -80>>, <<1010, 1010, 1, 7>>,
      <<1011, 1011, 1, -116>>, <<1013, 1013, 1, -96>>, <<1016, 1016, 1, -1>>,
      <<1019, 1019, 1, -1>>, <<1072, 1103, 1, -32>>, <<1104, 1119, 1, -80>>,
      <<1121, 1153, 2, -1>>, <<1163, 1215, 2, -1>>, <<1218, 1230, 2, -1>>,
      <<1231, 1231, 1, -15>>, <<1233, 1327, 2, -1>>, <<1377, 1414, 1, -48>>,
      <<4304, 4346, 1, 3008>>, <<4349, 4351, 1, 3008>>, <<5112, 5117, 1, -8>>,
      <<7296, 7296, 1, -6254>>, <<7297, 7297, 1, -6253>>,
      <<7298, 7298, 1, -6244>>, <<7299, 7300, 1, -6242>>,
      <<7301, 7301, 1, -6243>>, <<7302, 7302, 1, -6236>>,
      <<7303, 7303, 1, -6181>>, <<7304, 7304, 1, 35266>>,
      <<7545, 7545, 1, 35332>>, <<7549, 7549, 1, 3814>>,
      <<7566, 7566, 1, 35384>>, <<7681, 7829, 2, -1>>, <<7835, 7835, 1, -59>>,
      <<7841, 7935, 2, -1>>, <<7936, 7943, 1, 8>>, <<7952, 7957, 1, 8>>,
      <<7968, 7975, 1, 8>>, <<7984, 7991, 1, 8>>, <<8000, 8005, 1, 8>>,
      <<8017, 8023, 2, 8>>, <<8032, 8039, 1, 8>>, <<8048, 8049, 1, 74>>,
      <<8050, 8053, 1, 86>>, <<8054, 8055, 1, 100>>, <<8056, 8057, 1, 128>>,
      <<8058, 8059, 1, 112>>, <<8060, 8061, 1, 126>>, <<8112, 8113, 1, 8>>,
      <<8126, 8126, 1, -7205>>, <<8144, 8145, 1, 8>>, <<8160, 8161, 1, 8>>,
      <<8165, 8165, 1, 7>>, <<8526, 8526, 1, -28>>, <<8560, 8575, 1, -16>>,
      <<8580, 8580, 1, -1>>, <<9424, 9449, 1, -26>>, <<11312, 11359, 1, -48>>,
      <<11361, 11361, 1, -1>>, <<11365, 11365, 1, -10795>>,
      <<11366, 11366, 1, -10792>>, <<11368, 11372, 2, -1>>,
      <<11379, 11379, 1, -1>>, <<11382, 11382, 1, -1>>,
      <<11393, 11491, 2, -1>>, <<11500, 11502, 2, -1>>,
      <<11507, 11507, 1, -1>>, <<11520, 11557, 1, -7264>>,
      <<11559, 11559, 1, -7264>>, <<11565, 11565, 1, -7264>>,
      <<42561, 42605, 2, -1>>, <<42625, 42651, 2, -1>>,
      <<42787, 42799, 2, -1>>, <<42803, 42863, 2, -1>>,
      <<42874, 42876, 2, -1>>, <<42879, 42887, 2, -1>>,
      <<42892, 42892, 1, -1>>, <<42897, 42899, 2, -1>>,
      <<42900, 42900, 1, 48>>, <<42903, 42921, 2, -1>>,
      <<42933, 42947, 2, -1>>, <<42952, 42954, 2, -1>>,
      <<42961, 42961, 1, -1>>, <<42967, 42969, 2, -1>>,
      <<42998, 42998, 1, -1>>, <<43859, 43859, 1, -928>>,
      <<43888, 43967, 1, -38864>>, <<65345, 65370, 1, -32>>,
      <<66600, 66639, 1, -40>>, <<66776, 66811, 1, -40>>,
      <<66967, 66977, 1, -39>>, <<66979, 66993, 1, -39>>,
      <<66995, 67001, 1, -39>>, <<67003, 67004, 1, -39>>,
      <<68800, 68850, 1, -64>>, <<71872, 71903, 1, -32>>,
      <<93792, 93823, 1, -32>>, <<125218, 125251, 1, -34>>>>

\* The characters str.upper() changes.
Minusculas ==
    DOMAIN MayusculasVarias
      \cup UNION {{r[1] + r[3] * n : n \in 0..((r[2] - r[1]) \div r[3])} :
                     r \in {MayusculasSimples[k] : k \in 1..Len(MayusculasSimples)}}

\* The str.upper() image of each of them.
Mayuscula ==
    [c \in Minusculas |->
        IF c \in DOMAIN MayusculasVarias
        THEN MayusculasVarias[c]
        ELSE LET r == CHOOSE r \in {MayusculasSimples[k] :
                                       k \in 1..Len(MayusculasSimples)} :
                         /\ r[1] <= c
                         /\ c <= r[2]
                         /\ (c - r[1]) % r[3] = 0
             IN <<c + r[4]>>]

(***************************************************************************)
(* Pattern trees of the re module, for the constructs PATRONES uses.       *)
(***************************************************************************)
\* An unbounded repetition count ({m,}, *, +).
Inf == -1

\* One character of a class ([...], \s, \d).
Cls(s) == [t |-> "cls", no |-> FALSE, s |-> s]

\* One character outside a class (\S).
ClsNo(s) == [t |-> "cls", no |-> TRUE, s |-> s]

\* [ab]: one character of class a or of class b.
ClsO(a, b) ==
    IF a.no /\ b.no THEN ClsNo(a.s \cap b.s)
    ELSE IF a.no THEN ClsNo(a.s \ b.s)
    ELSE IF b.no THEN ClsNo(b.s \ a.s)
    ELSE Cls(a.s \cup b.s)

\* Character c belongs to class x.
EnClase(c, x) == (c \in x.s) # x.no

\* A sequence of sub-patterns.
Cat(xs) == [t |-> "cat", xs |-> xs]

\* A literal word, matched character for character.
Lit(w) == [t |-> "lit", w |-> Txt(w)]

\* x{lo,hi}; greedy unless the quantifier carries a ?.
Rep(lo, hi, greedy, x) == [t |-> "rep", lo |-> lo, hi |-> hi, greedy |-> greedy, x |-> x]

\* a|b|..., tried left to right.
Alt(xs) == [t |-> "alt", xs |-> xs]

\* The capture group ( ... ); every rule has exactly one.
Grp(x) == [t |-> "grp", x |-> x]

\* \s+ , \s* , [\s\n]* and x? as the rules write them.
sMas == Rep(1, Inf, TRUE, Cls(Espacios))

sAst == Rep(0, Inf, TRUE, Cls(Espacios))

snAst == Rep(0, Inf, TRUE, ClsO(Cls(Espacios), Cls(Ords({"\n"}))))

Opc(x) == Rep(0, 1, TRUE, x)

\* [A-Z$\/\.]+\s*\d[\d,\.]* : a currency mark followed by an amount.
Importe ==
    Cat(<<Rep(1, Inf, TRUE, Cls(AZ \cup Ords({"$", "/", "."}))), sAst, Cls(Digitos),
          Rep(0, Inf, TRUE, Cls(Digitos \cup Ords({",", "."})))>>)

\* A run of date characters that would also take the slash.
FechaDigConBarra == Rep(6, Inf, TRUE, Cls(D09 \cup Ords({" ", "/"})))

\* [0-9 ]{6,} : a date whose digits may be spaced out.
FechaDig == Rep(6, Inf, TRUE, Cls(D09 \cup Ords({" "})))

\* (?:DE\s+LA\s+PÓLIZA|DEL\s+PG)
DeLaPolizaODelPG ==
    Alt(<<Cat(<<Lit(<<"D", "E">>), sMas, Lit(<<"L", "A">>), sMas,
                Lit(<<"P", "Ó", "L", "I", "Z", "A">>)>>),
          Cat(<<Lit(<<"D", "E", "L">>), sMas, Lit(<<"P", "G">>)>>)>>)

CAMPOS ==
    <<"NUM_POL", "MON", "NUM_DOC", "FEC_NAC", "INI_VIG_POL", "FIN_VIG_POL",
      "PER_DIF", "PER_GAR", "REM_BASE", "PER_PAGO_RENTA",
      "K_SEPELIO", "P_UNICA", "PORC_DEV_PRIMA", "TASA_VENTA">>

PATRONES ==
    [campo \in {CAMPOS[i] : i \in 1..Len(CAMPOS)} |->
      CASE campo = "NUM_POL" ->
             Cat(<<Lit(<<"P", "Ó", "L", "I", "Z", "A">>), sMas, Lit(<<"N">>),
                   Cls(Ords({"°", "º"})), sAst,
                   Grp(Rep(1, Inf, TRUE, Cls(AZ \cup D09 \cup Ords({"/", ".", "-"}))))>>)
        [] campo = "MON" ->
             Cat(<<Lit(<<"M", "O", "N", "T", "O">>), sMas,
                   Lit(<<"P", "R", "I", "M", "A">>), sMas,
                   Lit(<<"Ú", "N", "I", "C", "A">>), snAst,
                   Grp(Rep(1, Inf, TRUE, Cls(AZ \cup Ords({"$", "/", "."}))))>>)
        [] campo = "NUM_DOC" ->
             Cat(<<Lit(<<"N">>), Cls(Ords({"°", "º"})), snAst,
                   Grp(Rep(8, Inf, TRUE, Cls(D09 \cup Ords({" "}))))>>)
        [] campo = "FEC_NAC" ->
             Cat(<<Lit(<<"F", "E", "C", "H", "A">>), sMas, Lit(<<"D", "E">>), sMas,
                   Lit(<<"N", "A", "C", "I", "M", "I", "E", "N", "T", "O">>), snAst,
                   Grp(FechaDig)>>)
        [] campo = "INI_VIG_POL" ->
             Cat(<<Lit(<<"F", "E", "C", "H", "A">>),
                   Opc(Cat(<<sMas, Lit(<<"D", "E">>)>>)), sMas,
                   Lit(<<"I", "N", "I", "C", "I", "O">>), sMas,
                   Lit(<<"V", "I", "G", "E", "N", "C", "I", "A">>), sMas,
                   DeLaPolizaODelPG, snAst, Grp(FechaDig)>>)
        [] campo = "FIN_VIG_POL" ->
             Cat(<<Lit(<<"F", "E", "C", "H", "A">>),
                   Opc(Cat(<<sMas, Lit(<<"D", "E">>)>>)), sMas,
                   Lit(<<"F", "I", "N">>), sMas,
                   Lit(<<"V", "I", "G", "E", "N", "C", "I", "A">>), sMas,
                   DeLaPolizaODelPG, snAst, Grp(FechaDig)>>)
        [] campo = "PER_DIF" ->
             Cat(<<Lit(<<"D", "I", "F", "E", "R", "I", "M", "I", "E", "N", "T", "O">>),
                   sMas, Lit(<<"D", "E", "L">>), sMas, Lit(<<"P", "A", "G", "O">>),
                   sAst, Lit(<<"(", "N">>), Cls(Ords({"°", "º"})), sAst,
                   Lit(<<"D", "E">>), sMas, Lit(<<"A", "Ñ", "O", "S", ")">>), snAst,
                   Grp(Rep(1, 3, TRUE, Cls(D09)))>>)
        [] campo = "PER_GAR" ->
             Cat(<<Lit(<<"N">>), Cls(Ords({"°", "º"})), sAst,
                   Lit(<<"M", "E", "S", "E", "S">>), sMas,
                   Lit(<<"P", "E", "R", "I", "O", "D", "O">>), sMas,
                   Lit(<<"G", "A", "R", "A", "N", "T", "I", "Z", "A", "D", "O">>),
                   sAst, Lit(<<"(", "P", "G", ")">>), snAst,
                   Grp(Rep(1, 3, TRUE, Cls(D09)))>>)
        [] campo = "REM_BASE" ->
             Cat(<<Lit(<<"M", "O", "N", "T", "O">>), sMas,
                   Lit(<<"R", "E", "N", "T", "A">>), sMas,
                   Lit(<<"B", "A", "S", "E">>),
                   Rep(0, Inf, FALSE, ClsO(Cls(Espacios), ClsNo(Espacios))),
                   Grp(Importe)>>)
        [] campo = "PER_PAGO_RENTA" ->
             Cat(<<Lit(<<"P", "E", "R", "I", "O", "D", "I", "C", "I", "D", "A", "D">>),
                   sMas, Lit(<<"D", "E", "L">>), sMas, Lit(<<"P", "A", "G", "O">>),
                   snAst,
                   Grp(Rep(1, Inf, TRUE, Cls(AZ \cup Ords({"Á", "É", "Í", "Ó", "Ú"}))))>>)
        [] campo = "K_SEPELIO" ->
             Cat(<<Lit(<<"S", "U", "M", "A">>), sMas,
                   Lit(<<"A", "S", "E", "G", "U", "R", "A", "D", "A">>), sMas,
                   Lit(<<"C", "O", "B">>), Opc(Lit(<<".">>)), sMas,
                   Lit(<<"D", "E">>), sMas,
                   Lit(<<"S", "E", "P", "E", "L", "I", "O">>), snAst,
                   Grp(Importe)>>)
        [] campo = "P_UNICA" ->
             Cat(<<Lit(<<"M", "O", "N", "T", "O">>), sMas,
                   Lit(<<"P", "R", "I", "M", "A">>), sMas,
                   Lit(<<"Ú", "N", "I", "C", "A">>), snAst,
                   Grp(Importe)>>)
        [] campo = "PORC_DEV_PRIMA" ->
             Cat(<<Lit(<<"M", "O", "N", "T", "O">>), sMas, Lit(<<"D", "E">>), sMas,
                   Lit(<<"D", "E", "V", "O", "L", "U", "C", "I", "Ó", "N">>), sMas,
                   Lit(<<"D", "E">>), sMas, Lit(<<"P", "R", "I", "M", "A">>), snAst,
                   Grp(Cat(<<Rep(1, Inf, TRUE, Cls(D09)), Opc(Lit(<<"%">>))>>))>>)
        [] campo = "TASA_VENTA" ->
             Cat(<<Alt(<<Cat(<<Lit(<<"T", "A", "S", "A">>), sMas, Lit(<<"D", "E">>),
                               sMas, Lit(<<"V", "E", "N", "T", "A">>), sMas,
                               Lit(<<"D", "E">>), sMas, Lit(<<"L", "A">>), sMas,
                               Lit(<<"P", "Ó", "L", "I", "Z", "A">>),
                               Opc(Cat(<<sAst, Lit(<<"(", "T", "V", ")">>)>>))>>),
                         Cat(<<Lit(<<"T", "A", "S", "A">>), sMas, Lit(<<"D", "E">>),
                               sMas, Lit(<<"V", "E", "N", "T", "A">>), sAst,
                               Lit(<<"(", "T", "V", ")">>), sAst,
                               Lit(<<"D", "E">>), sMas, Lit(<<"L", "A">>), sMas,
                               Lit(<<"P", "Ó", "L", "I", "Z", "A">>)>>)>>),
                   snAst,
                   Grp(Cat(<<Rep(1, Inf, TRUE, Cls(D09)),
                             Opc(Cat(<<Lit(<<".">>), Rep(1, Inf, TRUE, Cls(D09))>>))>>)),
                   sAst, Opc(Lit(<<"%">>))>>)]

(***************************************************************************)
(* re.search: a backtracking matcher.  todo is the stack of sub-patterns   *)
(* still to match from position i (the number of characters consumed);     *)
(* cap is the span of the capture group, <<>> until the group has closed.  *)
(* The alternatives are taken in the order the re module tries them, so    *)
(* the result is the match re.search reports: a greedy repetition keeps    *)
(* the longest run after which the rest of the pattern still matches, a    *)
(* lazy one the shortest, an alternation its first branch that does.       *)
(***************************************************************************)
NoCasa == [ok |-> FALSE]

Menos1(n) == IF n = Inf THEN Inf ELSE n - 1

Minimo(S) == CHOOSE x \in S : \A y \in S : x <= y

Maximo(S) == CHOOSE x \in S : \A y \in S : x >= y

\* How many characters from position i on belong to class x, up to hi of them.
Racha(texto, i, x, hi) ==
    LET resto == Len(texto) - i
        tope == IF hi = Inf \/ hi > resto THEN resto ELSE hi
        fuera == {j \in 1..tope : ~EnClase(texto[i + j], x)}
    IN IF fuera = {} THEN tope ELSE Minimo(fuera) - 1

RECURSIVE Casar(_, _, _, _)
Casar(texto, todo, i, cap) ==
    IF todo = <<>>
    THEN [ok |-> TRUE, fin |-> i, cap |-> cap]
    ELSE
      LET h == Head(todo)
          r == Tail(todo)
      IN CASE h.t = "cls" ->
                IF i < Len(texto) /\ EnClase(texto[i + 1], h)
                THEN Casar(texto, r, i + 1, cap)
                ELSE NoCasa
           [] h.t = "lit" ->
                IF i + Len(h.w) <= Len(texto)
                   /\ SubSeq(texto, i + 1, i + Len(h.w)) = h.w
                THEN Casar(texto, r, i + Len(h.w), cap)
                ELSE NoCasa
           [] h.t = "cat" -> Casar(texto, h.xs \o r, i, cap)
           [] h.t = "alt" ->
                IF h.xs = <<>>
                THEN NoCasa
                ELSE LET a == Casar(texto, <<Head(h.xs)>> \o r, i, cap)
                     IN IF a.ok
                        THEN a
                        ELSE Casar(texto, <<Alt(Tail(h.xs))>> \o r, i, cap)
           [] h.t = "rep" /\ h.x.t = "cls" ->
                LET k == Racha(texto, i, h.x, h.hi)
                    sirven == {n \in h.lo..k : Casar(texto, r, i + n, cap).ok}
                IN IF sirven = {}
                   THEN NoCasa
                   ELSE Casar(texto, r,
                              i + (IF h.greedy THEN Maximo(sirven) ELSE Minimo(sirven)),
                              cap)
           [] h.t = "rep" /\ h.x.t # "cls" ->
                LET otra == Casar(texto,
                                  <<h.x, Rep(IF h.lo > 0 THEN h.lo - 1 ELSE 0,
                                             Menos1(h.hi), h.greedy, h.x)>> \o r,
                                  i, cap)
                    sale == Casar(texto, r, i, cap)
                IN IF h.lo > 0 THEN otra
                   ELSE IF h.hi = 0 THEN sale
                   ELSE IF h.greedy
                        THEN (IF otra.ok THEN otra ELSE sale)
                        ELSE (IF sale.ok THEN sale ELSE otra)
           [] h.t = "grp" ->
                Casar(texto, <<h.x, [t |-> "fin", ini |-> i]>> \o r, i, cap)
           [] h.t = "fin" -> Casar(texto, r, i, <<h.ini, i>>)

\* re.search(patron, texto): the match from the leftmost start that has one.
re_search(patron, texto) ==
    LET inicios == {d \in 0..Len(texto) : Casar(texto, <<patron>>, d, <<>>).ok}
    IN IF inicios = {}
       THEN NoCasa
       ELSE Casar(texto, <<patron>>, Minimo(inicios), <<>>)

\* m.group(1)
group1(texto, m) == SubSeq(texto, m.cap[1] + 1, m.cap[2])

\* re.sub(r"\s+", "", s): every run of whitespace is deleted.
sub_espacios(s) == SelectSeq(s, LAMBDA c : c \notin Espacios)

\* str.strip(): leading and trailing whitespace is dropped.
RECURSIVE lstrip(_)
lstrip(s) == IF s # <<>> /\ Head(s) \in Espacios THEN lstrip(Tail(s)) ELSE s

RECURSIVE rstrip(_)
rstrip(s) ==
    IF s # <<>> /\ s[Len(s)] \in Espacios
    THEN rstrip(SubSeq(s, 1, Len(s) - 1))
    ELSE s

strip(s) == rstrip(lstrip(s))

\* str.upper() of s[a..b]: the images of its characters, one after another.
RECURSIVE upper_de(_, _, _)
upper_de(s, a, b) ==
    IF a > b THEN <<>>
    ELSE IF a = b THEN (IF s[a] \in Minusculas THEN Mayuscula[s[a]] ELSE <<s[a]>>)
    ELSE LET m == (a + b) \div 2
         IN upper_de(s, a, m) \o upper_de(s, m + 1, b)

\* str.upper()
upper(s) == upper_de(s, 1, Len(s))

\* An extraction that trims the capture at its ends only.
extraer_campo_solo_strip(texto, patron) ==
    LET m == re_search(patron, texto)
    IN IF ~m.ok THEN <<>> ELSE strip(group1(texto, m))

\* re.search, then re.sub(r"\s+", "", m.group(1)).strip(); "" without a match.
extraer_campo(texto, patron) ==
    LET m == re_search(patron, texto)
    IN IF ~m.ok THEN <<>> ELSE strip(sub_espacios(group1(texto, m)))

(***************************************************************************)
(* The documents the operator may upload.                                  *)
(***************************************************************************)
\* Every label of the schedule, with values broken by blanks and line
\* feeds and the document number left blank.
TextoCompleto ==
    Txt(
      <<"P", "Ó", "L", "I", "Z", "A", " ", "N", "°", " ", "A", "B", "-", "1",
        "2", "3", "/", "4", "5", "\n", "M", "O", "N", "T", "O", " ", "P", "R",
        "I", "M", "A", " ", "Ú", "N", "I", "C", "A", "\n", "U", "S", "$", " ",
        "1", ",", "2", "3", "4", ".", "5", "0", "\n", "N", "°", " ", " ", " ",
        " ", " ", " ", " ", " ", " ", "\n", "F", "E", "C", "H", "A", " ", "D",
        "E", " ", "N", "A", "C", "I", "M", "I", "E", "N", "T", "O", "\n", " ",
        "0", " ", "1", " ", "0", " ", "1", " ", "1", "9", "9", "0", "\n", "F",
        "E", "C", "H", "A", " ", "D", "E", " ", "I", "N", "I", "C", "I", "O",
        " ", "V", "I", "G", "E", "N", "C", "I", "A", " ", "D", "E", " ", "L",
        "A", " ", "P", "Ó", "L", "I", "Z", "A", " ", "0", "1", " ", "0", "2",
        " ", "2", "0", "2", "0", "\n", "F", "E", "C", "H", "A", " ", "F", "I",
        "N", " ", "V", "I", "G", "E", "N", "C", "I", "A", " ", "D", "E", "L",
        " ", "P", "G", " ", "0", "1", " ", "0", "2", " ", "2", "0", "3", "0",
        "\n", "D", "I", "F", "E", "R", "I", "M", "I", "E", "N", "T", "O", " ",
        "D", "E", "L", " ", "P", "A", "G", "O", " ", "(", "N", "°", " ", "D",
        "E", " ", "A", "Ñ", "O", "S", ")", " ", "1", "0", "\n", "N", "°", " ",
        "M", "E", "S", "E", "S", " ", "P", "E", "R", "I", "O", "D", "O", " ",
        "G", "A", "R", "A", "N", "T", "I", "Z", "A", "D", "O", " ", "(", "P",
        "G", ")", " ", "1", "2", "0", "\n", "M", "O", "N", "T", "O", " ", "R",
        "E", "N", "T", "A", " ", "B", "A", "S", "E", "\n", "U", "S", "$", " ",
        "5", "0", "0", ".", "0", "0", "\n", "P", "E", "R", "I", "O", "D", "I",
        "C", "I", "D", "A", "D", " ", "D", "E", "L", " ", "P", "A", "G", "O",
        " ", "M", "E", "N", "S", "U", "A", "L", "\n", "S", "U", "M", "A", " ",
        "A", "S", "E", "G", "U", "R", "A", "D", "A", " ", "C", "O", "B", ".",
        " ", "D", "E", " ", "S", "E", "P", "E", "L", "I", "O", " ", "U", "S",
        "$", "\n", " ", "3", ",", "0", "0", "0", "\n", "M", "O", "N", "T", "O",
        " ", "D", "E", " ", "D", "E", "V", "O", "L", "U", "C", "I", "Ó", "N",
        " ", "D", "E", " ", "P", "R", "I", "M", "A", " ", "1", "0", "0", "%",
        "\n", "T", "A", "S", "A", " ", "D", "E", " ", "V", "E", "N", "T", "A",
        " ", "D", "E", " ", "L", "A", " ", "P", "Ó", "L", "I", "Z", "A", " ",
        "3", ".", "5", "%", "\n", "\f">>)

\* A date of birth written with slashes, and labels in lower case, which
\* match only after str.upper(); between one label and its amount stand
\* characters that only [\s\S] takes, and str.upper() turns the sharp s
\* into two letters.
TextoRaro ==
    Txt(
      <<"F", "E", "C", "H", "A", " ", "D", "E", " ", "N", "A", "C", "I", "M",
        "I", "E", "N", "T", "O", "\n", " ", " ", "0", "1", " ", "/", " ",
        "0", "1", " ", "/", "\n", "1", "9", "9", "0", "\n", "p", "ó", "l",
        "i", "z", "a", " ", "n", "°", " ", "a", "b", "-", "1", "2", "3", "/",
        "4", "5", "\n", "m", "o", "n", "t", "o", " ", "r", "e", "n", "t",
        "a", " ", "b", "a", "s", "e", " ", "(", "s", "t", "r", "a", "ß", "e",
        ")", " ", "=", " ", "u", "s", "$", " ", "5", "0", "0", "\n", "p",
        "e", "r", "i", "o", "d", "i", "c", "i", "d", "a", "d", " ", "d", "e",
        "l", " ", "p", "a", "g", "o", " ", "b", "i", "l", "i", "n", "g", "ü",
        "e", "\n", "t", "a", "s", "a", " ", "d", "e", " ", "v", "e", "n",
        "t", "a", " ", "d", "e", " ", "l", "a", " ", "p", "ó", "l", "i", "z",
        "a", " ", "3", ".", "5", "%", "\n">>)

\* What pdfminer returns for a scanned page, whitespace only: a blank, a
\* no-break space, a line feed, a vertical tab, an em space, a form feed.
TextoBlanco == <<32, 160, 10, 11, 8195, 12>>

\* The UploadedFile objects of the catalog.
Archivos == {"completo", "raro", "blanco", "vacio", "roto"}

\* file.name; two different documents may carry the same name.
name(file) ==
    CASE file = "completo" -> Txt(<<"a", ".", "p", "d", "f">>)
      [] file = "raro" -> Txt(<<"b", ".", "p", "d", "f">>)
      [] file = "blanco" -> Txt(<<"b", ".", "p", "d", "f">>)
      [] file = "vacio" -> Txt(<<"v", ".", "p", "d", "f">>)
      [] file = "roto" -> Txt(<<"r", ".", "p", "d", "f">>)

\* file.getvalue(): no bytes at all, bytes that are no PDF, or a PDF with
\* the text pdfminer finds in it.
getvalue(file) ==
    CASE file = "completo" -> [bytes |-> "pdf", texto |-> TextoCompleto]
      [] file = "raro" -> [bytes |-> "pdf", texto |-> TextoRaro]
      [] file = "blanco" -> [bytes |-> "pdf", texto |-> TextoBlanco]
      [] file = "vacio" -> [bytes |-> "ninguno"]
      [] file = "roto" -> [bytes |-> "malformado"]

(***************************************************************************)
(* Bounds of the model.                                                    *)
(***************************************************************************)
\* The most files uploaded in one batch.
MaxDocs == 2

\* The most (document, rule) evaluations on which the matching engine raises.
MaxFaults == 2

(***************************************************************************)
(* Outcomes of a call: a value returned or an exception raised.            *)
(***************************************************************************)
Devuelve(v) == [exc |-> FALSE, val |-> v]

Lanza == [exc |-> TRUE]

\* extract_text of pdfminer: raises on bytes that are no PDF.
extract_text(data) ==
    IF data.bytes = "malformado" THEN Lanza ELSE Devuelve(data.texto)

\* The try body of extraer_texto_pdf.
extraer_texto_pdf_try(uploaded_file) ==
    LET data == getvalue(uploaded_file)
    IN IF data.bytes = "ninguno"
       THEN Devuelve(<<>>)
       ELSE LET txt == extract_text(data)
            IN IF txt.exc THEN Lanza ELSE Devuelve(txt.val)

\* A reading with no handler around it.
extraer_texto_pdf_sin_except(uploaded_file) == extraer_texto_pdf_try(uploaded_file)

\* try: ... except Exception: return ""
extraer_texto_pdf(uploaded_file) ==
    LET r == extraer_texto_pdf_try(uploaded_file)
    IN IF r.exc THEN Devuelve(<<>>) ELSE r

\* A test that takes only the empty string for a text without content.
sin_texto_sin_strip(texto) == texto = <<>>

\* not texto.strip(): nothing but whitespace, or nothing at all.
sin_texto(texto) == strip(texto) = <<>>

\* A row put in front of the rows already there.
registros_insert0(lista, fila) == <<fila>> \o lista

\* registros.append(fila)
registros_append(lista, fila) == Append(lista, fila)

\* texto.upper() if to_upper else texto
texto_proc_de(texto, mayus) == IF mayus THEN upper(texto) ELSE texto

Campos == {CAMPOS[k] : k \in 1..Len(CAMPOS)}

\* The texts the rules can be applied to: those of the catalog, as read and
\* in upper case.
TextosProc ==
    {texto_proc_de(getvalue(f).texto, m) :
        f \in {g \in Archivos : getvalue(g).bytes = "pdf"}, m \in BOOLEAN}

\* extraer_campo is a pure function: its values over the catalog, computed
\* once.
Extraidos ==
    [t \in TextosProc |-> [c \in Campos |-> extraer_campo(t, PATRONES[c])]]

\* The missing-sentinel "0".
Cero == Txt(<<"0">>)

\* str(e) of the exception the matching engine raises.
MensajeFalla == "error"

\* d[k] = v on a dict kept in insertion order: a new key goes last, a key
\* already present keeps its place.
DictSet(d, k, v) ==
    IF \E j \in 1..Len(d) : d[j][1] = k
    THEN [j \in 1..Len(d) |-> IF d[j][1] = k THEN <<k, v>> ELSE d[j]]
    ELSE Append(d, <<k, v>>)

\* list(d.keys())
DictKeys(d) == [j \in 1..Len(d) |-> d[j][1]]

\* Loops that differ from the source's in one respect each; the properties
\* of the batch below tell every one of them from it.
\*
\* The handler records the error but leaves the field out of the row.
RECURSIVE BucleCamposSinCentinela(_, _, _, _, _, _, _, _)
BucleCamposSinCentinela(k, fila, errs, llam, valores, file, i, lanzan) ==
    IF k > Len(CAMPOS)
    THEN [fila |-> fila, errores |-> errs, llamadas |-> llam]
    ELSE
      LET campo == CAMPOS[k]
          llam2 == Append(llam, <<i, campo>>)
      IN IF campo \in lanzan
         THEN BucleCamposSinCentinela(k + 1, fila,
                          Append(errs, [ARCHIVO |-> name(file),
                                        ERROR |-> <<campo, ": ", MensajeFalla>>]),
                          llam2, valores, file, i, lanzan)
         ELSE LET valor == valores[campo]
              IN BucleCamposSinCentinela(k + 1,
                             DictSet(fila, campo, IF valor # <<>> THEN valor ELSE Cero),
                             errs, llam2, valores, file, i, lanzan)

\* The try encloses the whole loop: the first failure ends the document.
RECURSIVE BucleCamposCorta(_, _, _, _, _, _, _, _)
BucleCamposCorta(k, fila, errs, llam, valores, file, i, lanzan) ==
    IF k > Len(CAMPOS)
    THEN [fila |-> fila, errores |-> errs, llamadas |-> llam]
    ELSE
      LET campo == CAMPOS[k]
          llam2 == Append(llam, <<i, campo>>)
      IN IF campo \in lanzan
         THEN [fila |-> DictSet(fila, campo, Cero),
               errores |-> Append(errs, [ARCHIVO |-> name(file),
                                         ERROR |-> <<campo, ": ", MensajeFalla>>]),
               llamadas |-> llam2]
         ELSE LET valor == valores[campo]
              IN BucleCamposCorta(k + 1,
                             DictSet(fila, campo, IF valor # <<>> THEN valor ELSE Cero),
                             errs, llam2, valores, file, i, lanzan)

\* A field that is not found is reported as an error too.
RECURSIVE BucleCamposFaltaEsError(_, _, _, _, _, _, _, _)
BucleCamposFaltaEsError(k, fila, errs, llam, valores, file, i, lanzan) ==
    IF k > Len(CAMPOS)
    THEN [fila |-> fila, errores |-> errs, llamadas |-> llam]
    ELSE
      LET campo == CAMPOS[k]
          llam2 == Append(llam, <<i, campo>>)
          err == [ARCHIVO |-> name(file), ERROR |-> <<campo, ": ", MensajeFalla>>]
      IN IF campo \in lanzan
         THEN BucleCamposFaltaEsError(k + 1, DictSet(fila, campo, Cero),
                          Append(errs, err), llam2, valores, file, i, lanzan)
         ELSE LET valor == valores[campo]
              IN BucleCamposFaltaEsError(k + 1,
                             DictSet(fila, campo, IF valor # <<>> THEN valor ELSE Cero),
                             IF valor # <<>> THEN errs ELSE Append(errs, err),
                             llam2, valores, file, i, lanzan)

\* An error already in the table is not recorded a second time.
RECURSIVE BucleCamposSinRepetir(_, _, _, _, _, _, _, _)
BucleCamposSinRepetir(k, fila, errs, llam, valores, file, i, lanzan) ==
    IF k > Len(CAMPOS)
    THEN [fila |-> fila, errores |-> errs, llamadas |-> llam]
    ELSE
      LET campo == CAMPOS[k]
          llam2 == Append(llam, <<i, campo>>)
          err == [ARCHIVO |-> name(file), ERROR |-> <<campo, ": ", MensajeFalla>>]
      IN IF campo \in lanzan
         THEN BucleCamposSinRepetir(k + 1, DictSet(fila, campo, Cero),
                          IF \E j \in 1..Len(errs) : errs[j] = err
                          THEN errs ELSE Append(errs, err),
                          llam2, valores, file, i, lanzan)
         ELSE LET valor == valores[campo]
              IN BucleCamposSinRepetir(k + 1,
                             DictSet(fila, campo, IF valor # <<>> THEN valor ELSE Cero),
                             errs, llam2, valores, file, i, lanzan)

\* The for campo in CAMPOS loop from the k-th field on.  valores[campo] is
\* extraer_campo(texto_proc, PATRONES[campo]); lanzan is the set of fields
\* whose rule raises on this text; llam logs the calls of extraer_campo.
RECURSIVE BucleCampos(_, _, _, _, _, _, _, _)
BucleCampos(k, fila, errs, llam, valores, file, i, lanzan) ==
    IF k > Len(CAMPOS)
    THEN [fila |-> fila, errores |-> errs, llamadas |-> llam]
    ELSE
      LET campo == CAMPOS[k]
          llam2 == Append(llam, <<i, campo>>)
      IN IF campo \in lanzan
         THEN BucleCampos(k + 1, DictSet(fila, campo, Cero),
                          Append(errs, [ARCHIVO |-> name(file),
                                        ERROR |-> <<campo, ": ", MensajeFalla>>]),
                          llam2, valores, file, i, lanzan)
         ELSE LET valor == valores[campo]
              IN BucleCampos(k + 1,
                             DictSet(fila, campo, IF valor # <<>> THEN valor ELSE Cero),
                             errs, llam2, valores, file, i, lanzan)

\* elegir_engine_excel(): the first of openpyxl, xlsxwriter that imports.
elegir_engine_excel(instalados) ==
    IF "openpyxl" \in instalados THEN "openpyxl"
    ELSE IF "xlsxwriter" \in instalados THEN "xlsxwriter"
    ELSE "None"

\* pd.ExcelWriter(bio, engine=engine) / pd.ExcelWriter(bio): with no engine
\* named pandas looks for one itself and raises when none is installed.
ExcelWriterFalla(engine, instalados) ==
    IF engine = "None" THEN instalados = {} ELSE engine \notin instalados

(***************************************************************************)
(* State.                                                                  *)
(***************************************************************************)
VARIABLES
    uploaded_files, \* the files of the uploader, in upload order
    to_upper,       \* sidebar toggle "Convertir texto a MAYUSCULAS"
    pc,             \* where the script run stands
    idx,            \* enumerate(uploaded_files, start=1): the next file
    registros,      \* the Result Table
    errores,        \* the Error Table
    progress,       \* files done, as shown by the progress bar (of total)
    pantalla,       \* what the page shows, in order of appearance
    vistos,         \* documents whose rules have been evaluated
    fallas,         \* <<document, field>>: the rule raises on that document
    llamadas        \* log of the calls extraer_campo(texto_proc, PATRONES[campo])

vars ==
    <<uploaded_files, to_upper, pc, idx, registros, errores, progress,
      pantalla, vistos, fallas, llamadas>>

total == Len(uploaded_files)

\* The non-empty batches of at most MaxDocs files.
Lotes == UNION {[1..n -> Archivos] : n \in 1..MaxDocs}

\* The fields on which the engine is made to raise: the first and the last
\* of CAMPOS, and three between them.
CamposQueLanzan == {"NUM_POL", "NUM_DOC", "FEC_NAC", "REM_BASE", "TASA_VENTA"}

\* The sets of fields on which the engine may raise for one document.
FallasPosibles == {F \in SUBSET CamposQueLanzan : Cardinality(F) <= MaxFaults}

\* The script has run to the button: files are uploaded, nothing processed.
Init ==
    /\ uploaded_files \in Lotes
    /\ to_upper \in BOOLEAN
    /\ pc = "boton"
    /\ idx = 1
    /\ registros = <<>>
    /\ errores = <<>>
    /\ progress = 0
    /\ pantalla = <<>>
    /\ vistos = {}
    /\ fallas = {}
    /\ llamadas = <<>>

\* if st.button("Procesar PDFs"): registros, errores = [], []
Procesar ==
    /\ pc = "boton"
    /\ pc' = "lote"
    /\ idx' = 1
    /\ registros' = <<>>
    /\ errores' = <<>>
    /\ progress' = 0
    /\ UNCHANGED <<uploaded_files, to_upper, pantalla, vistos, fallas, llamadas>>

\* One turn of the batch loop on a file with no text: one error, no row.
\* An exception leaving extraer_texto_pdf would end the run here.
DocumentoVacio ==
    /\ pc = "lote"
    /\ idx <= total
    /\ LET file == uploaded_files[idx]
           texto == extraer_texto_pdf(file)
       IN IF texto.exc
          THEN /\ pc' = "excepcion"
               /\ UNCHANGED <<idx, errores, progress>>
          ELSE /\ sin_texto(texto.val)
               /\ errores' = Append(errores,
                                    [ARCHIVO |-> name(file),
                                     ERROR |-> <<"Texto vacío o no extraíble">>])
               /\ progress' = idx
               /\ idx' = idx + 1
               /\ pc' = pc
    /\ UNCHANGED <<uploaded_files, to_upper, registros, pantalla, vistos, fallas,
                   llamadas>>

\* One turn of the batch loop on a file with text: every field of CAMPOS is
\* extracted into a fresh row, which is appended to registros.
DocumentoLeido ==
    /\ pc = "lote"
    /\ idx <= total
    /\ LET file == uploaded_files[idx]
           texto == extraer_texto_pdf(file)
           texto_proc == texto_proc_de(texto.val, to_upper)
           fila == <<<<"ARCHIVO", name(file)>>>>
       IN /\ ~texto.exc
          /\ ~sin_texto(texto.val)
          /\ \E lanzan \in FallasPosibles :
                /\ IF file \in vistos
                   THEN lanzan = {c \in Campos : <<file, c>> \in fallas}
                   ELSE Cardinality(fallas) + Cardinality(lanzan) <= MaxFaults
                /\ LET b == BucleCampos(1, fila, errores, llamadas,
                                        Extraidos[texto_proc], file, idx, lanzan)
                   IN /\ registros' = registros_append(registros, b.fila)
                      /\ errores' = b.errores
                      /\ llamadas' = b.llamadas
                /\ vistos' = vistos \cup {file}
                /\ fallas' = fallas \cup {<<file, c>> : c \in lanzan}
    /\ progress' = idx
    /\ idx' = idx + 1
    /\ UNCHANGED <<uploaded_files, to_upper, pc, pantalla>>

\* After the loop: df = pd.DataFrame(registros) is shown, and the errors
\* under a warning when there are any.
Mostrar ==
    /\ pc = "lote"
    /\ idx > total
    /\ pantalla' =
         pantalla
           \o <<[w |-> "success"],
                [w |-> "dataframe", tabla |-> "registros", df |-> registros]>>
           \o (IF errores # <<>>
               THEN <<[w |-> "warning", n |-> Len(errores)],
                      [w |-> "dataframe", tabla |-> "errores", df |-> errores]>>
               ELSE <<>>)
    /\ pc' = "excel"
    /\ UNCHANGED <<uploaded_files, to_upper, idx, registros, errores, progress,
                   vistos, fallas, llamadas>>

\* The workbook is written (sheet DATA, no index) and offered for download.
ExportarExcel ==
    /\ pc = "excel"
    /\ \E instalados \in SUBSET {"openpyxl", "xlsxwriter"} :
          LET engine == elegir_engine_excel(instalados)
          IN /\ ~ExcelWriterFalla(engine, instalados)
             /\ pantalla' =
                  Append(pantalla,
                         [w |-> "download_button", engine |-> engine,
                          sheet_name |-> "DATA", df |-> registros])
    /\ pc' = "fin"
    /\ UNCHANGED <<uploaded_files, to_upper, idx, registros, errores, progress,
                   vistos, fallas, llamadas>>

\* A failure of the writer after which the script goes on to the download.
ExportarFallaSinStop ==
    /\ pc = "excel"
    /\ \E instalados \in SUBSET {"openpyxl", "xlsxwriter"} :
          LET engine == elegir_engine_excel(instalados)
          IN ExcelWriterFalla(engine, instalados)
    /\ pantalla' =
         pantalla \o <<[w |-> "error"], [w |-> "exception"],
                       [w |-> "download_button", engine |-> "None",
                        sheet_name |-> "DATA", df |-> registros]>>
    /\ pc' = "fin"
    /\ UNCHANGED <<uploaded_files, to_upper, idx, registros, errores, progress,
                   vistos, fallas, llamadas>>

\* No engine writes the workbook: st.error, st.exception, st.stop().
ExportarFalla ==
    /\ pc = "excel"
    /\ \E instalados \in SUBSET {"openpyxl", "xlsxwriter"} :
          LET engine == elegir_engine_excel(instalados)
          IN ExcelWriterFalla(engine, instalados)
    /\ pantalla' = pantalla \o <<[w |-> "error"], [w |-> "exception"]>>
    /\ pc' = "stop"
    /\ UNCHANGED <<uploaded_files, to_upper, idx, registros, errores, progress,
                   vistos, fallas, llamadas>>

Next ==
    \/ Procesar
    \/ DocumentoVacio
    \/ DocumentoLeido
    \/ Mostrar
    \/ ExportarExcel
    \/ ExportarFalla

Spec == Init /\ [][Next]_vars

(***************************************************************************)
(* Reading a state of the batch.                                           *)
(***************************************************************************)
\* The files of the catalog that hold no PDF.
Ilegibles == {f \in Archivos : getvalue(f).bytes # "pdf"}

\* The files from which no text with content comes.
SinTexto ==
    Ilegibles \cup
    {f \in Archivos \ Ilegibles :
        \A k \in 1..Len(getvalue(f).texto) : getvalue(f).texto[k] \in Espacios}

ConTexto == Archivos \ SinTexto

\* s with every whitespace character taken out.
RECURSIVE QuitaEspacios(_)
QuitaEspacios(s) ==
    IF s = <<>> THEN <<>>
    ELSE IF Head(s) \in Espacios THEN QuitaEspacios(Tail(s))
    ELSE <<Head(s)>> \o QuitaEspacios(Tail(s))

\* What each rule finds in each file under each setting of the toggle:
\* <<>> when the rule has no match, <<g>> when it has one with capture g.
Busquedas ==
    [f \in ConTexto |->
       [m \in BOOLEAN |->
          [c \in Campos |->
             LET t == texto_proc_de(getvalue(f).texto, m)
                 r == re_search(PATRONES[c], t)
             IN IF r.ok THEN <<group1(t, r)>> ELSE <<>>]]]

\* The files the loop is done with are those at positions 1..Hechos.
Hechos == idx - 1

PosLeidas == {i \in 1..Hechos : uploaded_files[i] \in ConTexto}

PosVacias == {i \in 1..Hechos : uploaded_files[i] \in SinTexto}

\* The loop is over.
Terminado == pc \in {"excel", "fin", "stop"}

\* The row of the document at position i, one of PosLeidas.
FilaDe(i) == registros[Cardinality({p \in PosLeidas : p <= i})]

\* The matching engine raised on field c of the document at position i.
Falla(i, c) == <<uploaded_files[i], c>> \in fallas

Veces(lista, x) == Cardinality({k \in 1..Len(lista) : lista[k] = x})

ErrorDeCampo(i, c) ==
    [ARCHIVO |-> name(uploaded_files[i]), ERROR |-> <<c, ": ", MensajeFalla>>]

ErrorDeDocumento(i) ==
    [ARCHIVO |-> name(uploaded_files[i]), ERROR |-> <<"Texto vacío o no extraíble">>]

\* The number of entries the document at position i adds to errores.
NumErrores(i) ==
    IF uploaded_files[i] \in SinTexto THEN 1
    ELSE Cardinality({c \in Campos : Falla(i, c)})

RECURSIVE ErroresAntes(_)
ErroresAntes(i) == IF i <= 1 THEN 0 ELSE ErroresAntes(i - 1) + NumErrores(i - 1)

\* The entries of errores that the document at position i added.
ErroresDe(i) == SubSeq(errores, ErroresAntes(i) + 1, ErroresAntes(i) + NumErrores(i))

Columnas == <<"ARCHIVO">> \o CAMPOS

(***************************************************************************)
(* C5.  The rows of registros are in the order in which the documents      *)
(* that produced them were supplied, the entries of errores are in the     *)
(* order in which the failures happened, document by document, and the     *)
(* loop ends only when every supplied file has been dealt with.            *)
(***************************************************************************)
C5_OrdenDelLote ==
    /\ Len(registros) = Cardinality(PosLeidas)
    /\ \A i \in PosLeidas : FilaDe(i)[1] = <<"ARCHIVO", name(uploaded_files[i])>>
    /\ Len(errores) = ErroresAntes(Hechos + 1)
    /\ \A i \in 1..Hechos :
          \A k \in 1..Len(ErroresDe(i)) :
             ErroresDe(i)[k].ARCHIVO = name(uploaded_files[i])
    /\ (Terminado => Hechos = total)

\* Two documents with different names gave a row each and an error was
\* recorded on the way.
C5_Testigo ==
    /\ Terminado
    /\ Len(registros) = 2
    /\ registros[1][1] # registros[2][1]
    /\ errores # <<>>

(***************************************************************************)
(* C3.  A document whose text is empty or only whitespace gets no row, no  *)
(* rule is applied to it, and it adds exactly one entry to errores, which  *)
(* names it and carries the document-level message.                        *)
(***************************************************************************)
C3_DocumentoSinTexto ==
    /\ Len(registros) = Cardinality(PosLeidas)
    /\ Len(errores) = ErroresAntes(Hechos + 1)
    /\ \A i \in PosVacias :
          /\ \A k \in 1..Len(llamadas) : llamadas[k][1] # i
          /\ ErroresDe(i) = <<ErrorDeDocumento(i)>>

\* A file holding only whitespace has been dealt with, and so has a file
\* with text after it.
C3_Testigo ==
    \E i \in PosVacias :
       /\ uploaded_files[i] = "blanco"
       /\ \E j \in PosLeidas : j > i

(***************************************************************************)
(* C6.  When the text of a file cannot be read, the reading gives the      *)
(* empty text instead of raising: the file is dealt with as one without    *)
(* text, no exception ends the run, and the rest of the batch is           *)
(* processed.                                                              *)
(***************************************************************************)
C6_TextoIlegible ==
    /\ pc # "excepcion"
    /\ \A f \in Ilegibles : extraer_texto_pdf(f) = Devuelve(<<>>)
    /\ Len(registros) = Cardinality(PosLeidas)
    /\ Len(errores) = ErroresAntes(Hechos + 1)
    /\ \A i \in 1..Hechos :
          uploaded_files[i] \in Ilegibles =>
             /\ \A k \in 1..Len(llamadas) : llamadas[k][1] # i
             /\ ErroresDe(i) = <<ErrorDeDocumento(i)>>
    /\ (Terminado => Hechos = total)

\* The reading of a malformed file failed, and a file after it gave a row.
C6_Testigo ==
    /\ Terminado
    /\ \E i \in 1..Hechos :
          /\ uploaded_files[i] = "roto"
          /\ \E j \in PosLeidas : j > i

\* The value of the k-th field in the row of the document at position i.
ValorDe(i, k) == FilaDe(i)[k + 1][2]

\* What the k-th rule finds in the document at position i.
BusquedaDe(i, k) == Busquedas[uploaded_files[i]][to_upper][CAMPOS[k]]

NumCampos == 1..Len(CAMPOS)

(***************************************************************************)
(* C1.  Every document with text gives one row: its file name under        *)
(* ARCHIVO followed by the fourteen fields in the order of CAMPOS, and     *)
(* the value of each field is either the capture of its rule with all      *)
(* whitespace removed or the sentinel "0".                                 *)
(***************************************************************************)
C1_FilaCompleta ==
    /\ Len(registros) = Cardinality(PosLeidas)
    /\ \A i \in PosLeidas :
          /\ DictKeys(FilaDe(i)) = Columnas
          /\ FilaDe(i)[1][2] = name(uploaded_files[i])
          /\ \A k \in NumCampos :
                \/ ValorDe(i, k) = Cero
                \/ /\ BusquedaDe(i, k) # <<>>
                   /\ ValorDe(i, k) = QuitaEspacios(BusquedaDe(i, k)[1])

\* One row holds a field whose rule raised, a field whose rule found
\* nothing and a field whose capture was stored.
C1_Testigo ==
    /\ Len(registros) = Cardinality(PosLeidas)
    /\ \E i \in PosLeidas :
          \E kf, kn, km \in NumCampos :
             /\ Falla(i, CAMPOS[kf])
             /\ ~Falla(i, CAMPOS[kn]) /\ BusquedaDe(i, kn) = <<>>
             /\ ~Falla(i, CAMPOS[km]) /\ BusquedaDe(i, km) # <<>>
             /\ ValorDe(i, km) # Cero

(***************************************************************************)
(* C2.  When the rule of one field raises, that field holds "0", one       *)
(* entry naming the document and the field goes to errores, the fields     *)
(* after it are still extracted, the row is still appended, no exception   *)
(* ends the run and the documents after it are still processed.            *)
(***************************************************************************)
C2_AislamientoDeFallas ==
    /\ pc # "excepcion"
    /\ Len(registros) = Cardinality(PosLeidas)
    /\ Len(errores) = ErroresAntes(Hechos + 1)
    /\ \A i \in PosLeidas :
          /\ DictKeys(FilaDe(i)) = Columnas
          /\ \A k \in NumCampos :
                Falla(i, CAMPOS[k]) =>
                   /\ ValorDe(i, k) = Cero
                   /\ Veces(ErroresDe(i), ErrorDeCampo(i, CAMPOS[k])) = 1
                   /\ \A k2 \in NumCampos :
                         k2 > k => Veces(llamadas, <<i, CAMPOS[k2]>>) = 1
                   /\ \A k2 \in NumCampos :
                         (k2 > k /\ ~Falla(i, CAMPOS[k2]) /\ BusquedaDe(i, k2) # <<>>
                            /\ QuitaEspacios(BusquedaDe(i, k2)[1]) # <<>>)
                         => ValorDe(i, k2) = QuitaEspacios(BusquedaDe(i, k2)[1])
    /\ (Terminado => Hechos = total)

\* A rule raised on a field that is not the last one, of a document that
\* is not the last one, and the run got to its end.
C2_Testigo ==
    /\ Terminado
    /\ \E i \in PosLeidas :
          /\ \E k \in NumCampos :
                /\ k < Len(CAMPOS)
                /\ Falla(i, CAMPOS[k])
                /\ \E k2 \in NumCampos : k2 > k /\ ValorDe(i, k2) # Cero
          /\ \E j \in PosLeidas : j > i

(***************************************************************************)
(* C4.  A field whose rule finds nothing holds "0" and adds no entry to    *)
(* errores: the entries a document adds are those of the rules that        *)
(* raised, so a document with text in which no rule matches gives a row    *)
(* of fourteen "0" and no entry.                                           *)
(***************************************************************************)
C4_CampoAusente ==
    /\ Len(registros) = Cardinality(PosLeidas)
    /\ Len(errores) = ErroresAntes(Hechos + 1)
    /\ \A i \in PosLeidas :
          /\ DictKeys(FilaDe(i)) = Columnas
          /\ \A k \in NumCampos :
                (BusquedaDe(i, k) = <<>> /\ ~Falla(i, CAMPOS[k])) =>
                   /\ ValorDe(i, k) = Cero
                   /\ Veces(ErroresDe(i), ErrorDeCampo(i, CAMPOS[k])) = 0
          /\ (\A k \in NumCampos : BusquedaDe(i, k) = <<>> /\ ~Falla(i, CAMPOS[k]))
                => /\ \A k \in NumCampos : ValorDe(i, k) = Cero
                   /\ ErroresDe(i) = <<>>

\* A document with text in which no rule matched gave its row, and nothing
\* at all is in errores at the end of the run.
C4_Testigo ==
    /\ Terminado
    /\ errores = <<>>
    /\ \E i \in PosLeidas :
          \A k \in NumCampos : BusquedaDe(i, k) = <<>> /\ ~Falla(i, CAMPOS[k])

(***************************************************************************)
(* C10.  No stored value is empty and none holds a whitespace character;   *)
(* a rule that matches with a capture of whitespace only gives "0" and     *)
(* adds no entry to errores.                                               *)
(***************************************************************************)
C10_ValoresSinEspacios ==
    /\ Len(registros) = Cardinality(PosLeidas)
    /\ Len(errores) = ErroresAntes(Hechos + 1)
    /\ \A i \in PosLeidas :
          /\ DictKeys(FilaDe(i)) = Columnas
          /\ \A k \in NumCampos :
                /\ ValorDe(i, k) # <<>>
                /\ \A j \in 1..Len(ValorDe(i, k)) : ValorDe(i, k)[j] \notin Espacios
                /\ (/\ BusquedaDe(i, k) # <<>>
                    /\ QuitaEspacios(BusquedaDe(i, k)[1]) = <<>>
                    /\ ~Falla(i, CAMPOS[k]))
                   => /\ ValorDe(i, k) = Cero
                      /\ Veces(ErroresDe(i), ErrorDeCampo(i, CAMPOS[k])) = 0

\* A rule matched with a capture of blanks only, and another rule of the
\* same document matched with a capture that has whitespace inside it.
C10_Testigo ==
    /\ Len(registros) = Cardinality(PosLeidas)
    /\ \E i \in PosLeidas :
          \E k, k2 \in NumCampos :
             /\ BusquedaDe(i, k) # <<>>
             /\ BusquedaDe(i, k)[1] # <<>>
             /\ QuitaEspacios(BusquedaDe(i, k)[1]) = <<>>
             /\ ~Falla(i, CAMPOS[k])
             /\ BusquedaDe(i, k2) # <<>>
             /\ ~Falla(i, CAMPOS[k2])
             /\ QuitaEspacios(BusquedaDe(i, k2)[1]) # BusquedaDe(i, k2)[1]
             /\ ValorDe(i, k2) # Cero

\* The places of pantalla where widget w stands.
Lugares(w) == {k \in 1..Len(pantalla) : pantalla[k].w = w}

\* Table t has been shown with content df before the place k of pantalla.
MostradaAntes(t, df, k) ==
    \E j \in Lugares("dataframe") :
       /\ j < k
       /\ pantalla[j].tabla = t
       /\ pantalla[j].df = df

(***************************************************************************)
(* C7, as stated.  When the writer fails, no download is offered, an       *)
(* error is shown, every file has been dealt with, and both the table of   *)
(* rows and the table of errors, as the loop left them, were shown before  *)
(* the error.                                                              *)
(***************************************************************************)
C7_Original ==
    pc = "stop" =>
       /\ Lugares("download_button") = {}
       /\ Hechos = total
       /\ \E e \in Lugares("error") :
             /\ MostradaAntes("registros", registros, e)
             /\ MostradaAntes("errores", errores, e)

(***************************************************************************)
(* C7.  An error is on the screen only when the writer failed.  When it    *)
(* failed, no download is offered, every file has been dealt with, the     *)
(* tables are as the loop left them, the table of rows was shown before    *)
(* the error, and the table of errors was shown before it exactly when it  *)
(* has an entry: an empty table of errors is never shown.  When the        *)
(* writer worked, the download holds the table of rows.                    *)
(***************************************************************************)
C7_SoloFallaLaExportacion ==
    /\ (Lugares("error") # {} => pc = "stop")
    /\ (pc = "stop" =>
          /\ Lugares("download_button") = {}
          /\ Hechos = total
          /\ Len(registros) = Cardinality(PosLeidas)
          /\ Len(errores) = ErroresAntes(Hechos + 1)
          /\ \E e \in Lugares("error") :
                /\ MostradaAntes("registros", registros, e)
                /\ (errores # <<>> => MostradaAntes("errores", errores, e))
                /\ (errores = <<>> =>
                      \A j \in Lugares("dataframe") : pantalla[j].tabla # "errores"))
    /\ (pc = "fin" =>
          \E d \in Lugares("download_button") :
             /\ pantalla[d].df = registros
             /\ pantalla[d].engine \in {"openpyxl", "xlsxwriter"})

\* The writer failed on a batch that gave rows and errors.
C7_Testigo ==
    /\ pc = "stop"
    /\ registros # <<>>
    /\ errores # <<>>

\* Extraidos by file and setting of the toggle.
ExtraidosDe ==
    [f \in ConTexto |->
       [m \in BOOLEAN |-> Extraidos[texto_proc_de(getvalue(f).texto, m)]]]

\* The outcome of the document of file f processed on its own, the engine
\* raising on the fields of lanzan.
Solo(f, lanzan) ==
    BucleCampos(1, <<<<"ARCHIVO", name(f)>>>>, <<>>, <<>>,
                ExtraidosDe[f][to_upper], f, 1, lanzan)

(***************************************************************************)
(* C8.  A file supplied twice gives the same row and the same entries of   *)
(* errores both times, and what a document gives in a batch is what it     *)
(* gives when it is processed on its own.                                  *)
(***************************************************************************)
C8_Determinismo ==
    /\ Len(registros) = Cardinality(PosLeidas)
    /\ Len(errores) = ErroresAntes(Hechos + 1)
    /\ \A i \in 1..Hechos :
          \A j \in 1..Hechos :
             (i < j /\ uploaded_files[i] = uploaded_files[j]) =>
                /\ ErroresDe(i) = ErroresDe(j)
                /\ (i \in PosLeidas => FilaDe(i) = FilaDe(j))
    /\ \A i \in PosLeidas :
          LET f == uploaded_files[i]
              solo == Solo(f, {c \in Campos : Falla(i, c)})
          IN /\ FilaDe(i) = solo.fila
             /\ ErroresDe(i) = solo.errores

\* The same file with text went through the loop twice, a rule raising on
\* it.
C8_Testigo ==
    \E i \in PosLeidas :
       \E j \in PosLeidas :
          /\ i < j
          /\ uploaded_files[i] = uploaded_files[j]
          /\ \E c \in Campos : Falla(i, c)

\* trozo occurs in texto.
Contiene(texto, trozo) ==
    \E d \in 0..(Len(texto) - Len(trozo)) :
       SubSeq(texto, d + 1, d + Len(trozo)) = trozo

\* "NACIMIENTO\n  01 / 01 /\n1990"
FechaConBarras ==
    Txt(<<"N", "A", "C", "I", "M", "I", "E", "N", "T", "O", "\n", " ", " ", "0",
      "1", " ", "/", " ", "0", "1", " ", "/", "\n", "1", "9", "9", "0">>)

\* "NACIMIENTO\n 0 1 0 1 1990"
FechaConBlancos ==
    Txt(<<"N", "A", "C", "I", "M", "I", "E", "N", "T", "O", "\n", " ", "0", " ",
      "1", " ", "0", " ", "1", " ", "1", "9", "9", "0">>)

ConFechaConBarras == {f \in ConTexto : Contiene(getvalue(f).texto, FechaConBarras)}

ConFechaConBlancos == {f \in ConTexto : Contiene(getvalue(f).texto, FechaConBlancos)}

\* The place of FEC_NAC in CAMPOS.
LugarFecNac == CHOOSE k \in NumCampos : CAMPOS[k] = "FEC_NAC"

(***************************************************************************)
(* C9, as stated.  In a document whose text holds the date of birth        *)
(* written "01 / 01 /" and "1990" on the next line, the rule of FEC_NAC    *)
(* matches and the stored value is its capture without whitespace.         *)
(***************************************************************************)
C9_Original ==
    /\ Len(registros) = Cardinality(PosLeidas)
    /\ \A i \in PosLeidas :
          (uploaded_files[i] \in ConFechaConBarras /\ ~Falla(i, "FEC_NAC")) =>
             /\ BusquedaDe(i, LugarFecNac) # <<>>
             /\ ValorDe(i, LugarFecNac) = QuitaEspacios(BusquedaDe(i, LugarFecNac)[1])
             /\ ValorDe(i, LugarFecNac) # Cero

(***************************************************************************)
(* C9.  The rule of FEC_NAC takes digits and blanks only.  In a document   *)
(* whose date of birth is written with slashes the rule has no match and   *)
(* FEC_NAC holds "0"; in a document whose date of birth is written as      *)
(* digits separated by blanks the stored value is the digits alone.        *)
(***************************************************************************)
C9_FechaDeNacimiento ==
    /\ Len(registros) = Cardinality(PosLeidas)
    /\ \A i \in PosLeidas :
          /\ DictKeys(FilaDe(i)) = Columnas
          /\ uploaded_files[i] \in ConFechaConBarras =>
                /\ BusquedaDe(i, LugarFecNac) = <<>>
                /\ ValorDe(i, LugarFecNac) = Cero
                /\ (~Falla(i, "FEC_NAC") =>
                      Veces(ErroresDe(i), ErrorDeCampo(i, "FEC_NAC")) = 0)
          /\ (uploaded_files[i] \in ConFechaConBlancos /\ ~Falla(i, "FEC_NAC")) =>
                /\ BusquedaDe(i, LugarFecNac) # <<>>
                /\ ValorDe(i, LugarFecNac) = Txt(<<"0", "1", "0", "1", "1", "9", "9", "0">>)

\* A document with the date in slashes and a document with the date in
\* blanks have both given their rows, no rule raising on FEC_NAC.
C9_Testigo ==
    /\ \E i \in PosLeidas :
          uploaded_files[i] \in ConFechaConBarras /\ ~Falla(i, "FEC_NAC")
    /\ \E i \in PosLeidas :
          uploaded_files[i] \in ConFechaConBlancos /\ ~Falla(i, "FEC_NAC")

=============================================================================
